---- MODULE Spec2Model ----
(***************************************************************************)
(* Letter Challenge WebSocket server (src/server.js): matchmaking          *)
(* registry, waiting queue and the authoritative per-room game state.      *)
(* Node runs every handler to completion, one event at a time, so each     *)
(* handler is one atomic action.                                           *)
(***************************************************************************)
EXTENDS Integers, Sequences, FiniteSets, TLC

(***************************************************************************)
(* Bounds of the model.                                                    *)
(***************************************************************************)
NumConns == 2        \* connections that ever connect
NumRoomIds == 2      \* distinct values makeId(3) can return
AlphaLen == 1        \* letters of the alphabet the generator permutes
MaxAttempts == 2     \* attempts of the generator loop
FnAlphaLen == 3      \* letters of the alphabet when the generator is applied on its own

Conns == 1..NumConns
RoomIds == 1..NumRoomIds

\* ws.roomId = null
NoRoom == 0

\* makeId(3): the values it can return
makeId == RoomIds

(***************************************************************************)
(* Characters and words.  A word is a sequence of one-character strings.   *)
(***************************************************************************)
Upper == <<"A","B","C","D","E","F","G","H","I","J","K","L","M",
           "N","O","P","Q","R","S","T","U","V","W","X","Y","Z">>
Lower == <<"a","b","c","d","e","f","g","h","i","j","k","l","m",
           "n","o","p","q","r","s","t","u","v","w","x","y","z">>

Range(s) == {s[i] : i \in 1..Len(s)}

Min(a, b) == IF a <= b THEN a ELSE b

\* String.prototype.toLowerCase on one character
LowerChar(ch) ==
  IF \E i \in 1..26 : Upper[i] = ch
    THEN Lower[CHOOSE i \in 1..26 : Upper[i] = ch]
    ELSE ch

\* String.prototype.toLowerCase
toLowerCase(word) == [i \in 1..Len(word) |-> LowerChar(word[i])]

\* Array.prototype.slice(0, size)
Slice(array, size) == SubSeq(array, 1, Min(size, Len(array)))

\* "ABCDEFGHIJKLMNOPQRSTUVWXYZ".split(''), cut to the model's alphabet
alpha == SubSeq(Upper, 1, AlphaLen)

\* payload.word values a client submits: a word of the first letter, the same
\* letter twice, its upper-case spelling, and the empty (falsy) word
WordInputs == { <<"a">>, <<"a","a">>, <<"A">>, <<>> }

\* payload.playerIndex values a client submits (3 stands for any other value)
PlayerIndexInputs == {1, 2, 3}

\* payload.mode values a client submits ("none": the field is absent)
ModeInputs == {"none"}

\* contents of words.txt: a word list (FnDictionaries has the absent file)
Dictionaries == { { <<"a">>, <<"a","a">> } }

VARIABLES
  readyState,        \* per connection: "NONE" (not yet connected), "OPEN", "CLOSED"
  roomId,            \* ws.roomId per connection
  rooms,             \* the rooms Map: live room id -> room
  waiting,           \* the waiting array
  serverDictionary,  \* the serverDictionary Set
  out,               \* the send() calls of the last handler, in order
  acceptedIn,        \* history: words accepted in each live room since it was created
  crashed,           \* the process has died of an exception no handler caught
  fn                 \* the helper function being applied on its own (FnSpec), else idle

vars == <<readyState, roomId, rooms, waiting, serverDictionary, out, acceptedIn, crashed, fn>>

\* no helper function is being applied on its own
Idle == [op |-> "idle"]

\* room.state = null
NullState == [mode |-> "null"]

Msg(to, type, payload) == [to |-> to, type |-> type, payload |-> payload]

\* the empty payload {}
Empty == [none |-> TRUE]

(***************************************************************************)
(* Helper functions of the server.                                         *)
(***************************************************************************)
Swap(array, i, j) == [array EXCEPT ![i] = array[j], ![j] = array[i]]

\* shuffleArray: the results of the Fisher-Yates loop, i from the last index
\* down to the second, j random in the first i positions
RECURSIVE ShuffleFrom(_, _)
ShuffleFrom(array, i) ==
  IF i <= 1 THEN {array}
  ELSE UNION { ShuffleFrom(Swap(array, i, j), i - 1) : j \in 1..i }

shuffleArray(array) == ShuffleFrom(array, Len(array))

\* canMake after its counts table is built: consume the word's characters
RECURSIVE CanMakeFrom(_, _)
CanMakeFrom(word, counts) ==
  IF word = <<>> THEN TRUE
  ELSE LET ch == Head(word) IN
    IF ch \notin DOMAIN counts \/ counts[ch] = 0 THEN FALSE
    ELSE CanMakeFrom(Tail(word), [counts EXCEPT ![ch] = @ - 1])

\* canMake without its letter test
canMakeAnything(word, lettersArr) == TRUE

canMake(word, lettersArr) ==
  LET counts == [l \in Range(lettersArr) |->
                   Cardinality({i \in 1..Len(lettersArr) : lettersArr[i] = l})]
  IN CanMakeFrom(word, counts)

isWordValid(dict, word, lettersArr) ==
  IF dict # {} /\ toLowerCase(word) \notin dict THEN FALSE
  ELSE canMake(word, toLowerCase(lettersArr))

countDictionaryMatches(dict, lettersArr) ==
  IF dict = {} THEN 5
  ELSE LET letters == toLowerCase(lettersArr)
       IN Min(Cardinality({w \in dict : Len(w) >= 2 /\ canMake(w, letters)}), 1000)

\* pickLettersWithAtLeastNWords from a given attempt on: the set of values it
\* can return.  array is the (shuffled in place) alphabet array.
RECURSIVE PickFrom(_, _, _, _, _)
PickFrom(dict, array, size, n, attempt) ==
  IF attempt >= MaxAttempts THEN { Slice(array, size) }
  ELSE UNION { IF countDictionaryMatches(dict, Slice(shuffled, size)) >= n
                 THEN { Slice(shuffled, size) }
                 ELSE PickFrom(dict, shuffled, size, n, attempt + 1)
               : shuffled \in shuffleArray(array) }

pickLettersWithAtLeastNWords(dict, size, n) == PickFrom(dict, alpha, size, n, 0)

\* payload.mode || "versus"
ModeOf(m) == IF m = "none" THEN "versus" ELSE m

PoolSize(mode) == IF mode = "basic" THEN 5 ELSE IF mode = "terrible" THEN 10 ELSE 20

\* initGameState once the letters are picked
NewState(mode, letters) ==
  [ mode |-> mode, letters |-> letters, turn |-> 1, p1Score |-> 0, p2Score |-> 0,
    foundWords |-> <<>>, foundWordsSet |-> {} ]

\* initGameState: the states it can return
initGameState(dict, mode) ==
  { NewState(mode, letters) : letters \in pickLettersWithAtLeastNWords(dict, PoolSize(mode), 3) }

(***************************************************************************)
(* Initial state: the module has been loaded, nobody is connected.         *)
(***************************************************************************)
Init ==
  /\ readyState = [c \in Conns |-> "NONE"]
  /\ roomId = [c \in Conns |-> NoRoom]
  /\ rooms = <<>>
  /\ waiting = <<>>
  /\ serverDictionary \in Dictionaries
  /\ out = <<>>
  /\ acceptedIn = [r \in RoomIds |-> {}]
  /\ crashed = FALSE
  /\ fn = Idle

HasRoom(id) == id \in DOMAIN rooms

\* rooms.set(id, room)
RoomsSet(id, room) == [r \in (DOMAIN rooms) \cup {id} |-> IF r = id THEN room ELSE rooms[r]]

\* rooms.delete(id)
RoomsDelete(id) == [r \in (DOMAIN rooms) \ {id} |-> rooms[r]]

\* the capacity test with > for >=
RoomFullOffByOne(room) == Len(room.players) > 2

\* room.players.length >= 2
RoomFull(room) == Len(room.players) >= 2

(***************************************************************************)
(* wss.on("connection")                                                    *)
(***************************************************************************)
Connect(ws) ==
  /\ ~crashed
  /\ readyState[ws] = "NONE"
  /\ \A c \in Conns : c < ws => readyState[c] # "NONE"
  /\ readyState' = [readyState EXCEPT ![ws] = "OPEN"]
  /\ roomId' = [roomId EXCEPT ![ws] = NoRoom]
  /\ out' = <<>>
  /\ UNCHANGED <<rooms, waiting, serverDictionary, crashed, fn, acceptedIn>>

\* the peer-left notifications of the close handler
PeerLeft(ws, players) ==
  LET others == SelectSeq(players, LAMBDA p : p # ws /\ readyState[p] = "OPEN")
  IN [i \in 1..Len(others) |-> Msg(others[i], "peer-left", Empty)]

\* waiting.indexOf(ws); splice(idx, 1)
RemoveFirst(queue, ws) ==
  IF ws \notin Range(queue) THEN queue
  ELSE LET idx == CHOOSE i \in 1..Len(queue) :
                    queue[i] = ws /\ \A k \in 1..(i - 1) : queue[k] # ws
       IN SubSeq(queue, 1, idx - 1) \o SubSeq(queue, idx + 1, Len(queue))

(***************************************************************************)
(* ws.on("close")                                                          *)
(***************************************************************************)
Close(ws) ==
  /\ readyState[ws] = "OPEN"
  /\ readyState' = [readyState EXCEPT ![ws] = "CLOSED"]
  /\ IF roomId[ws] # NoRoom /\ HasRoom(roomId[ws])
       THEN /\ out' = PeerLeft(ws, rooms[roomId[ws]].players)
            /\ rooms' = RoomsDelete(roomId[ws])
            /\ acceptedIn' = [acceptedIn EXCEPT ![roomId[ws]] = {}]
            /\ UNCHANGED waiting
       ELSE /\ waiting' = RemoveFirst(waiting, ws)
            /\ out' = <<>>
            /\ UNCHANGED <<rooms, acceptedIn>>
  /\ UNCHANGED <<roomId, serverDictionary, crashed, fn>>

(***************************************************************************)
(* "create-room"                                                           *)
(***************************************************************************)
CreateRoom(ws) ==
  /\ readyState[ws] = "OPEN"
  /\ \E id \in makeId :
       /\ rooms' = RoomsSet(id, [id |-> id, players |-> <<ws>>, state |-> NullState])
       /\ roomId' = [roomId EXCEPT ![ws] = id]
       /\ out' = << Msg(ws, "room-created", [roomId |-> id]) >>
       /\ acceptedIn' = [acceptedIn EXCEPT ![id] = {}]
  /\ UNCHANGED <<readyState, waiting, serverDictionary, crashed, fn>>

(***************************************************************************)
(* "join-room"; id is payload.roomId, m is payload.mode                    *)
(***************************************************************************)
\* room.players.forEach((p, i) => send(p, "room-joined", ...))
RoomJoined(players, id, state) ==
  [i \in 1..Len(players) |->
     Msg(players[i], "room-joined", [roomId |-> id, playerIndex |-> i, state |-> state])]

JoinRoom(ws, id, m) ==
  /\ readyState[ws] = "OPEN"
  /\ IF ~HasRoom(id)
       THEN /\ out' = << Msg(ws, "error", [message |-> "Room not found"]) >>
            /\ UNCHANGED <<rooms, roomId>>
       ELSE IF RoomFull(rooms[id])
       THEN /\ out' = << Msg(ws, "error", [message |-> "Room full"]) >>
            /\ UNCHANGED <<rooms, roomId>>
       ELSE \E state \in initGameState(serverDictionary, ModeOf(m)) :
              LET players == Append(rooms[id].players, ws) IN
              /\ rooms' = [rooms EXCEPT ![id] = [@ EXCEPT !.players = players, !.state = state]]
              /\ roomId' = [roomId EXCEPT ![ws] = id]
              /\ out' = RoomJoined(players, id, state)
  /\ UNCHANGED <<readyState, waiting, serverDictionary, crashed, fn, acceptedIn>>

(***************************************************************************)
(* "quick-match"; m is payload.mode                                        *)
(***************************************************************************)
\* the pairing with the new arrival put first
MatchPlayersSwapped(peer, ws) == <<ws, peer>>

\* players: [peer, ws]
MatchPlayers(peer, ws) == <<peer, ws>>

QuickMatch(ws, m) ==
  /\ readyState[ws] = "OPEN"
  /\ IF Len(waiting) > 0
       THEN LET peer == Head(waiting) IN
            /\ waiting' = Tail(waiting)
            /\ \E id \in makeId, state \in initGameState(serverDictionary, ModeOf(m)) :
              /\ rooms' = RoomsSet(id, [id |-> id, players |-> MatchPlayers(peer, ws),
                                        state |-> state])
              /\ roomId' = [roomId EXCEPT ![peer] = id, ![ws] = id]
              /\ out' = << Msg(peer, "matched", [roomId |-> id, playerIndex |-> 1, state |-> state]),
                           Msg(ws, "matched", [roomId |-> id, playerIndex |-> 2, state |-> state]) >>
              /\ acceptedIn' = [acceptedIn EXCEPT ![id] = {}]
       ELSE /\ waiting' = Append(waiting, ws)
            /\ out' = << Msg(ws, "waiting", Empty) >>
            /\ UNCHANGED <<rooms, roomId, acceptedIn>>
  /\ UNCHANGED <<readyState, serverDictionary, crashed, fn>>

(***************************************************************************)
(* "start-game"; m is payload.mode                                         *)
(***************************************************************************)
\* room.players.forEach((p,i) => send(p, "game-start", ...))
GameStart(players, state) ==
  [i \in 1..Len(players) |->
     Msg(players[i], "game-start", [state |-> state, playerIndex |-> i])]

StartGame(ws, m) ==
  /\ readyState[ws] = "OPEN"
  /\ IF ~HasRoom(roomId[ws])
       THEN /\ out' = <<>>
            /\ UNCHANGED rooms
       ELSE LET room == rooms[roomId[ws]] IN
            \E state \in (IF room.state = NullState
                            THEN initGameState(serverDictionary, ModeOf(m))
                            ELSE {room.state}) :
              /\ rooms' = [rooms EXCEPT ![roomId[ws]].state = state]
              /\ out' = GameStart(room.players, state)
  /\ UNCHANGED <<readyState, roomId, waiting, serverDictionary, crashed, fn, acceptedIn>>

(***************************************************************************)
(* "submit-word"; word and playerIndex are the payload's fields            *)
(***************************************************************************)
\* state.turn = (playerIndex === 1) ? 2 : 1
NextTurn(turn, playerIndex) == IF playerIndex = 1 THEN 2 ELSE 1

\* the accepted move applied to the room's state
Accept(state, word, playerIndex) ==
  LET pts == Len(word) IN
  [ state EXCEPT
      !.foundWords = Append(@, [word |-> word, by |-> playerIndex]),
      !.foundWordsSet = @ \cup {word},
      !.p1Score = IF playerIndex = 1 THEN @ + pts ELSE @,
      !.p2Score = IF playerIndex = 1 THEN @ ELSE @ + pts,
      !.turn = NextTurn(@, playerIndex) ]

\* room.players.forEach(p => send(p, "state-update", { state }))
StateUpdate(players, state) ==
  [i \in 1..Len(players) |-> Msg(players[i], "state-update", [state |-> state])]

\* submit-word with the invalid-word rejection sent to every player of the room
SubmitWordRejectToAll(ws, word, playerIndex) ==
  /\ readyState[ws] = "OPEN"
  /\ IF ~HasRoom(roomId[ws])
       THEN /\ out' = <<>>
            /\ UNCHANGED <<rooms, acceptedIn>>
       ELSE LET room == rooms[roomId[ws]]
                state == room.state IN
         IF state = NullState \/ word = <<>>
           THEN /\ out' = <<>>
                /\ UNCHANGED <<rooms, acceptedIn>>
         ELSE IF word \in state.foundWordsSet
           THEN /\ out' = << Msg(ws, "move-rejected", [reason |-> "already-found"]) >>
                /\ UNCHANGED <<rooms, acceptedIn>>
         ELSE IF ~isWordValid(serverDictionary, word, state.letters)
           THEN /\ out' = [i \in 1..Len(room.players) |->
                             Msg(room.players[i], "move-rejected", [reason |-> "invalid-word"])]
                /\ UNCHANGED <<rooms, acceptedIn>>
         ELSE LET state2 == Accept(state, word, playerIndex) IN
                /\ rooms' = [rooms EXCEPT ![roomId[ws]].state = state2]
                /\ out' = StateUpdate(room.players, state2)
                /\ acceptedIn' = [acceptedIn EXCEPT ![roomId[ws]] = @ \cup {word}]
  /\ UNCHANGED <<readyState, roomId, waiting, serverDictionary, crashed, fn>>

SubmitWord(ws, word, playerIndex) ==
  /\ readyState[ws] = "OPEN"
  /\ IF ~HasRoom(roomId[ws])
       THEN /\ out' = <<>>
            /\ UNCHANGED <<rooms, acceptedIn>>
       ELSE LET room == rooms[roomId[ws]]
                state == room.state IN
         IF state = NullState \/ word = <<>>
           THEN /\ out' = <<>>
                /\ UNCHANGED <<rooms, acceptedIn>>
         ELSE IF word \in state.foundWordsSet
           THEN /\ out' = << Msg(ws, "move-rejected", [reason |-> "already-found"]) >>
                /\ UNCHANGED <<rooms, acceptedIn>>
         ELSE IF ~isWordValid(serverDictionary, word, state.letters)
           THEN /\ out' = << Msg(ws, "move-rejected", [reason |-> "invalid-word"]) >>
                /\ UNCHANGED <<rooms, acceptedIn>>
         ELSE LET state2 == Accept(state, word, playerIndex) IN
                /\ rooms' = [rooms EXCEPT ![roomId[ws]].state = state2]
                /\ out' = StateUpdate(room.players, state2)
                /\ acceptedIn' = [acceptedIn EXCEPT ![roomId[ws]] = @ \cup {word}]
  /\ UNCHANGED <<readyState, roomId, waiting, serverDictionary, crashed, fn>>

(***************************************************************************)
(* "get-state"                                                             *)
(***************************************************************************)
GetState(ws) ==
  /\ readyState[ws] = "OPEN"
  /\ out' = IF HasRoom(roomId[ws])
              THEN << Msg(ws, "state-update", [state |-> rooms[roomId[ws]].state]) >>
              ELSE <<>>
  /\ UNCHANGED <<readyState, roomId, rooms, waiting, serverDictionary, crashed, fn, acceptedIn>>

(***************************************************************************)
(* Messages that are not a well-formed envelope.                           *)
(***************************************************************************)
\* an exception leaves the message handler: nothing catches it, the process
\* exits, and its rooms, queue and sockets go with it
Throw ==
  /\ crashed' = TRUE
  /\ readyState' = [c \in Conns |-> IF readyState[c] = "OPEN" THEN "CLOSED" ELSE readyState[c]]
  /\ roomId' = [c \in Conns |-> NoRoom]
  /\ rooms' = <<>>
  /\ waiting' = <<>>
  /\ out' = <<>>
  /\ acceptedIn' = [r \in RoomIds |-> {}]
  /\ UNCHANGED <<serverDictionary, fn>>

\* raw is not JSON: JSON.parse throws, the catch returns
UnparsableMessage(ws) ==
  /\ readyState[ws] = "OPEN"
  /\ out' = <<>>
  /\ UNCHANGED <<readyState, roomId, rooms, waiting, serverDictionary, acceptedIn, crashed, fn>>

\* raw is the JSON text null: const { type, payload } = msg throws
NullMessage(ws) ==
  /\ readyState[ws] = "OPEN"
  /\ Throw

\* message types whose handler reads a field of payload
PayloadTypes == {"join-room", "quick-match", "start-game", "submit-word"}

\* an envelope { type } without payload: the handler throws where it reads a
\* field of the undefined payload, and runs as usual where it does not
MissingPayload(ws, type) ==
  /\ readyState[ws] = "OPEN"
  /\ CASE type = "join-room" -> Throw
       [] type = "quick-match" ->
            IF Len(waiting) > 0 THEN Throw
            ELSE /\ waiting' = Append(waiting, ws)
                 /\ out' = << Msg(ws, "waiting", Empty) >>
                 /\ UNCHANGED <<readyState, roomId, rooms, serverDictionary, acceptedIn, crashed, fn>>
       [] type = "start-game" ->
            IF ~HasRoom(roomId[ws])
              THEN /\ out' = <<>>
                   /\ UNCHANGED <<readyState, roomId, rooms, waiting, serverDictionary,
                                  acceptedIn, crashed, fn>>
            ELSE IF rooms[roomId[ws]].state = NullState THEN Throw
            ELSE /\ out' = GameStart(rooms[roomId[ws]].players, rooms[roomId[ws]].state)
                 /\ UNCHANGED <<readyState, roomId, rooms, waiting, serverDictionary,
                                acceptedIn, crashed, fn>>
       [] type = "submit-word" ->
            IF ~HasRoom(roomId[ws])
              THEN /\ out' = <<>>
                   /\ UNCHANGED <<readyState, roomId, rooms, waiting, serverDictionary,
                                  acceptedIn, crashed, fn>>
            ELSE Throw

Next ==
  \/ \E ws \in Conns : Connect(ws)
  \/ \E ws \in Conns : Close(ws)
  \/ \E ws \in Conns : CreateRoom(ws)
  \/ \E ws \in Conns, id \in RoomIds, m \in ModeInputs : JoinRoom(ws, id, m)
  \/ \E ws \in Conns, m \in ModeInputs : QuickMatch(ws, m)
  \/ \E ws \in Conns, m \in ModeInputs : StartGame(ws, m)
  \/ \E ws \in Conns, word \in WordInputs, playerIndex \in PlayerIndexInputs :
       SubmitWord(ws, word, playerIndex)
  \/ \E ws \in Conns : GetState(ws)
  \/ \E ws \in Conns : UnparsableMessage(ws)
  \/ \E ws \in Conns : NullMessage(ws)
  \/ \E ws \in Conns, type \in PayloadTypes : MissingPayload(ws, type)

Spec == Init /\ [][Next]_vars

(***************************************************************************)
(* The letter-set generator and the word validation applied on their own,  *)
(* on an alphabet of FnAlphaLen letters, the generator one loop iteration  *)
(* at a time.  fn is the call in progress or the value it returned.        *)
(***************************************************************************)
\* "ABCDEFGHIJKLMNOPQRSTUVWXYZ".split(''), cut to FnAlphaLen letters
fnAlpha == SubSeq(Upper, 1, FnAlphaLen)

\* contents of words.txt: absent file, one word, three words of two letters
FnDictionaries == { {}, { <<"a","b">> },
                    { <<"a","b">>, <<"b","a">>, <<"a","c">>, <<"a">> } }

\* size arguments (pool sizes below the alphabet's length)
FnSizes == {1, 2}

\* n arguments (initGameState passes 3)
FnMinWords == {1, 3}

\* lettersArr arguments: the pools the generator can return
FnPools == { Slice(shuffled, size) : shuffled \in shuffleArray(fnAlpha), size \in FnSizes }

\* word arguments
FnWords == { <<"a">>, <<"A">>, <<"a","b">>, <<"A","b">>, <<"a","a">>, <<"d">> }

FnInit ==
  /\ readyState = [c \in Conns |-> "NONE"]
  /\ roomId = [c \in Conns |-> NoRoom]
  /\ rooms = <<>>
  /\ waiting = <<>>
  /\ serverDictionary \in FnDictionaries
  /\ out = <<>>
  /\ acceptedIn = [r \in RoomIds |-> {}]
  /\ crashed = FALSE
  /\ fn = Idle

\* pickLettersWithAtLeastNWords(size, n) is called: const alpha = ...; attempt = 0
CallPick(size, n) ==
  /\ fn = Idle
  /\ fn' = [op |-> "pick", array |-> fnAlpha, size |-> size, n |-> n, attempt |-> 0]
  /\ UNCHANGED <<readyState, roomId, rooms, waiting, serverDictionary, out, acceptedIn, crashed>>

\* one iteration of the loop: shuffle alpha in place, count, return or go on
PickAttempt ==
  /\ fn.op = "pick"
  /\ fn.attempt < MaxAttempts
  /\ \E shuffled \in shuffleArray(fn.array) :
       LET cand == Slice(shuffled, fn.size)
           count == countDictionaryMatches(serverDictionary, cand) IN
       IF count >= fn.n
         THEN fn' = [op |-> "picked", size |-> fn.size, n |-> fn.n,
                     result |-> cand, fellback |-> FALSE]
         ELSE fn' = [fn EXCEPT !.array = shuffled, !.attempt = @ + 1]
  /\ UNCHANGED <<readyState, roomId, rooms, waiting, serverDictionary, out, acceptedIn, crashed>>

\* the loop is over: return alpha.slice(0, size)
PickFallback ==
  /\ fn.op = "pick"
  /\ fn.attempt >= MaxAttempts
  /\ fn' = [op |-> "picked", size |-> fn.size, n |-> fn.n,
            result |-> Slice(fn.array, fn.size), fellback |-> TRUE]
  /\ UNCHANGED <<readyState, roomId, rooms, waiting, serverDictionary, out, acceptedIn, crashed>>

\* isWordValid(word, lettersArr) is called and returns
CallIsWordValid(word, lettersArr) ==
  /\ fn = Idle
  /\ fn' = [op |-> "validated", word |-> word, lettersArr |-> lettersArr,
            result |-> isWordValid(serverDictionary, word, lettersArr)]
  /\ UNCHANGED <<readyState, roomId, rooms, waiting, serverDictionary, out, acceptedIn, crashed>>

\* the caller has taken the returned value
Return ==
  /\ fn.op \in {"picked", "validated"}
  /\ fn' = Idle
  /\ UNCHANGED <<readyState, roomId, rooms, waiting, serverDictionary, out, acceptedIn, crashed>>

FnNext ==
  \/ \E size \in FnSizes, n \in FnMinWords : CallPick(size, n)
  \/ PickAttempt
  \/ PickFallback
  \/ \E word \in FnWords, lettersArr \in FnPools : CallIsWordValid(word, lettersArr)
  \/ Return

FnSpec == FnInit /\ [][FnNext]_vars

(***************************************************************************)
(* Properties.                                                             *)
(***************************************************************************)
Players(r) == Range(rooms[r].players)

Rejected(ws, reason) == << Msg(ws, "move-rejected", [reason |-> reason]) >>

\* sum of the lengths of the foundWords entries attributed to player by
RECURSIVE SumLengths(_, _)
SumLengths(foundWords, by) ==
  IF foundWords = <<>> THEN 0
  ELSE (IF Head(foundWords).by = by THEN Len(Head(foundWords).word) ELSE 0)
       + SumLengths(Tail(foundWords), by)

\* C1: in every room with a game state, turn is 1 after an even number of
\* accepted moves and 2 after an odd number (a state starts with turn 1 and
\* no accepted move, and foundWords holds the moves accepted since).
C1_TurnAlternation ==
  \A r \in DOMAIN rooms :
    rooms[r].state # NullState =>
      rooms[r].state.turn = (IF Len(rooms[r].state.foundWords) % 2 = 0 THEN 1 ELSE 2)

\* C2: in every game state p1Score is the sum of the lengths of the words
\* with by = 1 and p2Score the sum of the lengths of the words with by = 2.
C2_ScoreInvariant ==
  \A r \in DOMAIN rooms :
    rooms[r].state # NullState =>
      /\ rooms[r].state.p1Score = SumLengths(rooms[r].state.foundWords, 1)
      /\ rooms[r].state.p2Score = SumLengths(rooms[r].state.foundWords, 2)

\* C3: a submit-word carrying a word already accepted in the sender's room
\* (since that room was created) is answered with move-rejected already-found.
C3_RejectionIdempotent ==
  [][ \A ws \in Conns, word \in WordInputs, playerIndex \in PlayerIndexInputs :
        ( /\ SubmitWord(ws, word, playerIndex)
          /\ HasRoom(roomId[ws])
          /\ word \in acceptedIn[roomId[ws]] )
        => out' = Rejected(ws, "already-found") ]_vars

\* C4: every room has at most 2 players, and a join-room on a room that holds
\* 2 players is answered with the Room full error and leaves the player list
\* of that room as it was.
C4_RoomCapacity ==
  /\ [](\A r \in DOMAIN rooms : Len(rooms[r].players) <= 2)
  /\ [][ \A ws \in Conns, id \in RoomIds, m \in ModeInputs :
           ( /\ HasRoom(id)
             /\ Len(rooms[id].players) = 2
             /\ JoinRoom(ws, id, m) )
           => /\ out' = << Msg(ws, "error", [message |-> "Room full"]) >>
              /\ id \in DOMAIN rooms'
              /\ rooms'[id].players = rooms[id].players ]_vars

\* C4 witness: a join-room has just been refused with Room full by a room of
\* two players.
C4_Witness ==
  \E ws \in Conns, r \in DOMAIN rooms :
    /\ out = << Msg(ws, "error", [message |-> "Room full"]) >>
    /\ Len(rooms[r].players) = 2

\* C5: a quick-match on an empty queue appends the sender and replies waiting;
\* on a non-empty queue it removes the head, writes exactly one registry entry,
\* a room of [head, sender] with a fresh game state, and sends matched with
\* playerIndex 1 to the head and playerIndex 2 to the sender.
C5_QuickMatchFIFO ==
  [][ \A ws \in Conns, m \in ModeInputs :
        QuickMatch(ws, m) =>
          IF waiting = <<>>
            THEN /\ waiting' = <<ws>>
                 /\ out' = << Msg(ws, "waiting", Empty) >>
                 /\ rooms' = rooms
            ELSE /\ waiting' = Tail(waiting)
                 /\ Len(out') = 2
                 /\ LET id == out'[1].payload.roomId
                        state == out'[1].payload.state IN
                      /\ DOMAIN rooms' = (DOMAIN rooms) \cup {id}
                      /\ \A r \in (DOMAIN rooms) \ {id} : rooms'[r] = rooms[r]
                      /\ rooms'[id].players = << Head(waiting), ws >>
                      /\ rooms'[id].state = state
                      /\ state.turn = 1 /\ state.p1Score = 0 /\ state.p2Score = 0
                      /\ state.foundWords = <<>> /\ state.foundWordsSet = {}
                      /\ out' = << Msg(Head(waiting), "matched",
                                       [roomId |-> id, playerIndex |-> 1, state |-> state]),
                                   Msg(ws, "matched",
                                       [roomId |-> id, playerIndex |-> 2, state |-> state]) >> ]_vars

\* C5 witness: two different connections have just been paired, the earlier
\* one as player 1, and the queue is empty.
C5_Witness ==
  \E a, b \in Conns, r \in DOMAIN rooms :
    /\ a # b
    /\ Len(out) = 2
    /\ out[1].to = a /\ out[1].type = "matched" /\ out[1].payload.playerIndex = 1
    /\ out[2].to = b /\ out[2].type = "matched" /\ out[2].payload.playerIndex = 2
    /\ out[1].payload.roomId = r
    /\ rooms[r].players = <<a, b>>
    /\ waiting = <<>>

\* C6: when a connection that is in a room's player list closes, every room
\* that lists it is removed from the registry, every other player of such a
\* room is sent peer-left, and afterwards no room lists the closed connection.
C6_CloseRemovesRoom ==
  [][ \A ws \in Conns :
        ( /\ Close(ws)
          /\ \E r \in DOMAIN rooms : ws \in Players(r) )
        => /\ \A r \in DOMAIN rooms :
                ws \in Players(r) =>
                  /\ r \notin DOMAIN rooms'
                  /\ \A p \in Players(r) \ {ws} :
                       \E i \in 1..Len(out') : out'[i] = Msg(p, "peer-left", Empty)
           /\ \A r \in DOMAIN rooms' : ws \notin Range(rooms'[r].players) ]_vars

\* C7: when a connection that is in the waiting queue and in no room's player
\* list closes, it is removed from the queue, the other queued connections
\* keep their order, the registry is unchanged and no message is sent.
C7_CloseQueued ==
  [][ \A ws \in Conns :
        ( /\ Close(ws)
          /\ ws \in Range(waiting)
          /\ \A r \in DOMAIN rooms : ws \notin Players(r) )
        => /\ waiting' = SelectSeq(waiting, LAMBDA p : p # ws)
           /\ rooms' = rooms
           /\ out' = <<>> ]_vars

\* C8: no connection in the waiting queue is a player of a room in the registry.
C8_QueuedHasNoRoom ==
  \A i \in 1..Len(waiting) : \A r \in DOMAIN rooms : waiting[i] \notin Players(r)

\* C9: a join-room that succeeds on a room whose game state exists leaves that
\* game state unchanged and sends that same state to both players.
C9_JoinKeepsState ==
  [][ \A ws \in Conns, id \in RoomIds, m \in ModeInputs :
        ( /\ JoinRoom(ws, id, m)
          /\ HasRoom(id)
          /\ Len(rooms[id].players) < 2
          /\ rooms[id].state # NullState )
        => /\ rooms'[id].state = rooms[id].state
           /\ \A i \in 1..Len(out') : out'[i].payload.state = rooms[id].state ]_vars

\* C10: the identifier chosen by create-room or by a quick-match pairing is the
\* id of no room in the registry, and every existing registry entry is kept.
C10_FreshRoomId ==
  [][ \A ws \in Conns, m \in ModeInputs :
        ( CreateRoom(ws) \/ (QuickMatch(ws, m) /\ waiting # <<>>) )
        => /\ out'[1].payload.roomId \notin DOMAIN rooms
           /\ \A r \in DOMAIN rooms : r \in DOMAIN rooms' /\ rooms'[r] = rooms[r] ]_vars

\* occurrences of ch in seq
Count(ch, seq) == Cardinality({i \in 1..Len(seq) : seq[i] = ch})

\* word can be drawn from letters as a multiset, letter case aside
Formable(word, letters) ==
  \A ch \in Range(toLowerCase(word)) :
    Count(ch, toLowerCase(word)) <= Count(ch, toLowerCase(letters))

\* C11: when the dictionary is not empty and the generator has used up its
\* attempts without a qualifying candidate, it returns the first size letters
\* of the alphabet in alphabetical order.
C11_FallbackAlphabetical ==
  (fn.op = "picked" /\ fn.fellback /\ serverDictionary # {})
    => fn.result = Slice(fnAlpha, fn.size)

\* C12: whenever isWordValid reaches its canMake call (the dictionary is
\* empty or holds the word's lowercase form), its verdict is true exactly
\* when the word can be drawn from the pool as a multiset, letter case aside.
C12_FeasibilityCaseInsensitive ==
  (/\ fn.op = "validated"
   /\ (serverDictionary = {} \/ toLowerCase(fn.word) \in serverDictionary))
    => (fn.result <=> Formable(fn.word, fn.lettersArr))

\* C13: no message crashes the server, and a message that is not a
\* well-formed envelope with its payload leaves the registry and the waiting
\* queue (and with the registry every game state) unchanged.
C13_NoFatalEvent ==
  /\ [](~crashed)
  /\ [][ \A ws \in Conns, type \in PayloadTypes :
           (UnparsableMessage(ws) \/ NullMessage(ws) \/ MissingPayload(ws, type))
           => (rooms' = rooms /\ waiting' = waiting) ]_vars

C15_RejectionChangesNothing ==
  [][ (\E i \in 1..Len(out') : out'[i].type = "move-rejected")
      => /\ rooms' = rooms
         /\ waiting' = waiting
         /\ \/ out' = Rejected(out'[1].to, "already-found")
            \/ out' = Rejected(out'[1].to, "invalid-word")
         /\ \E word \in WordInputs, playerIndex \in PlayerIndexInputs :
              SubmitWord(out'[1].to, word, playerIndex) ]_vars

\* C15 witness: a move has just been rejected in a room whose other player is
\* another connection.
C15_Witness ==
  \E ws \in Conns :
    /\ out = Rejected(ws, "invalid-word")
    /\ HasRoom(roomId[ws])
    /\ Len(rooms[roomId[ws]].players) = 2
    /\ ws \in Players(roomId[ws])
    /\ Players(roomId[ws]) # {ws}

\* C16: when a submit-word is accepted, a state-update with the updated state
\* is sent to every player of the room it changed, the submitter included.
C16_AcceptBroadcast ==
  [][ \A ws \in Conns, word \in WordInputs, playerIndex \in PlayerIndexInputs :
        ( rooms' # rooms /\ SubmitWord(ws, word, playerIndex) )
        => LET r == roomId[ws] IN
           /\ \A p \in Players(r) :
                \E i \in 1..Len(out') :
                  out'[i] = Msg(p, "state-update", [state |-> rooms'[r].state])
           /\ \E i \in 1..Len(out') : out'[i].to = ws ]_vars

\* C17: every player of a live room has that room's id as its roomId, and
\* every connection whose roomId names a live room is a player of it.
C17_MembershipConsistent ==
  /\ \A r \in DOMAIN rooms : \A c \in Players(r) : roomId[c] = r
  /\ \A c \in Conns : HasRoom(roomId[c]) => c \in Players(roomId[c])

\* C18: a room of two players holds two different connections.
C18_NoSelfPairing ==
  \A r \in DOMAIN rooms :
    Len(rooms[r].players) = 2 => rooms[r].players[1] # rooms[r].players[2]

\* C19: for every accepted submit-word the recorded by, and the score that
\* grows, are those of the submitter's position in the room's players.
C19_AuthenticAttribution ==
  [][ \A ws \in Conns, word \in WordInputs, playerIndex \in PlayerIndexInputs :
        ( rooms' # rooms /\ SubmitWord(ws, word, playerIndex) )
        => LET r == roomId[ws]
               old == rooms[r].state
               new == rooms'[r].state
               entry == new.foundWords[Len(new.foundWords)] IN
           \E i \in 1..Len(rooms[r].players) :
             /\ rooms[r].players[i] = ws
             /\ entry.by = i
             /\ new.p1Score = old.p1Score + (IF i = 1 THEN Len(word) ELSE 0)
             /\ new.p2Score = old.p2Score + (IF i = 2 THEN Len(word) ELSE 0) ]_vars

\* C20: a connection whose close has been processed is neither in the waiting
\* queue nor a player of any room in the registry.
C20_NoDanglingClosed ==
  \A c \in Conns :
    readyState[c] = "CLOSED" =>
      /\ c \notin Range(waiting)
      /\ \A r \in DOMAIN rooms : c \notin Players(r)

====
